---- MODULE Spec2Model ----
(***************************************************************************)
(* Model of static/js/dashboard.js: the click handler bound to the         *)
(* #refreshPrices button, the promise chain fetch -> json -> then -> catch, *)
(* and showAlert with its two nested setTimeout timers.                     *)
(*                                                                          *)
(* Execution model: the browser event loop.  Every action below is one     *)
(* task (a click, a network event together with the microtasks it          *)
(* triggers, a timer callback) and runs to completion.  Money amounts are  *)
(* integers in cents, percentages in hundredths of a percent, so that      *)
(* Number.prototype.toFixed(2) is an exact formatting.  A setTimeout timer *)
(* fires when its delay has elapsed (time does not pass beyond a due       *)
(* timer).                                                                  *)
(***************************************************************************)
EXTENDS Integers, Sequences, FiniteSets, TLC

\* ------------------------------------------------------------------ bounds
MaxOutstanding == 2     \* requests in flight at the same time
MaxAlerts == 2          \* alert elements created by showAlert in one run

\* ------------------------------------------------------- program constants
DismissDelay == 5000    \* setTimeout(..., 5000)
FadeDelay == 150        \* setTimeout(() => alertDiv.remove(), 150)

LoadingLabel == "<span class=spinner-border></span> loading"
OriginalLabel == "<i class=bi-arrow-clockwise></i> refresh"
DangerMessage == "price refresh failed, check the connection"

\* -------------------------------------------------------------- the page
\* The portfolio ids that have a tr[data-portfolio-id] row on the page
RowIds == {1}
AlertIds == 1..MaxAlerts

\* Amounts of time the clock may advance in one step.
TimeSteps == {DismissDelay \div 2}

VARIABLES
    btn,                \* #refreshPrices: [disabled, innerHTML]
    outstanding,        \* promise chains in flight, in issue order: "fetching" | "decoding"
    regions,            \* #totalInvested, #totalValue, #totalPL
    rows,               \* tr[data-portfolio-id=id] for id in RowIds
    alerts,             \* the alert elements created by showAlert, in creation order
    hasContainer,       \* document.querySelector('main.container') # null
    anchor,             \* container.querySelector('.d-flex'): "child" of the container,
                        \* "nested" deeper inside it, or "absent" (null)
    unhandledRejection  \* the catch callback itself threw: the chain ended rejected

vars == <<btn, outstanding, regions, rows, alerts, hasContainer, anchor, unhandledRejection>>

\* ------------------------------------------------------------- formatting
Abs(n) == IF n < 0 THEN -n ELSE n

Pad2(n) == IF n < 10 THEN "0" \o ToString(n) ELSE ToString(n)

\* Number.prototype.toFixed(2) of the amount c/100
toFixed2(c) ==
    (IF c < 0 THEN "-" ELSE "") \o ToString(Abs(c) \div 100) \o "." \o Pad2(Abs(c) % 100)

plSign(pl) == IF pl >= 0 THEN "+" ELSE ""

plClass(pl) == IF pl >= 0 THEN "profit" ELSE "loss"

\* ---------------------------------------------------------- response data
Undefined == "<undefined>"

ErrorValues == {Undefined, "", "X"}

\* Variant: if (data.error !== "")
Truthy_DefinedOnly(v) == v # ""

\* if (data.error)
Truthy(v) == v \notin {Undefined, ""}

\* "ok": totals and portfolios present; "noTotals": data.totals undefined;
\* "noPortfolios": data.portfolios undefined
Shapes == {"ok", "noTotals", "noPortfolios"}

ProfitTotals ==
    [total_invested |-> 10000, total_current_value |-> 12550,
     total_profit_loss |-> 2550, total_profit_loss_percent |-> 2550]

LossTotals ==
    [total_invested |-> 10000, total_current_value |-> 8766,
     total_profit_loss |-> -1234, total_profit_loss_percent |-> -1234]

Portfolio(id, price, value, pl, pct) ==
    [id |-> id, current_price |-> price, current_value |-> value,
     profit_loss |-> pl, profit_loss_percent |-> pct]

\* The bodies the server may answer with: totals with their portfolios.
Payloads ==
    { [totals |-> ProfitTotals,
       portfolios |-> << Portfolio(2, 300, 2540, 40, 160), Portfolio(1, 5005, 10010, 2510, 3347) >>],
      [totals |-> LossTotals,
       portfolios |-> << Portfolio(1, 4383, 8766, -1234, -1234) >>] }

ResponseData ==
    { [error |-> e, shape |-> s, totals |-> p.totals, portfolios |-> p.portfolios] :
        e \in ErrorValues, s \in Shapes, p \in Payloads }

\* ---------------------------------------------------------------- Init
InitRegions ==
    [totalInvested |-> [textContent |-> "$0.00"],
     totalValue |-> [textContent |-> "$0.00"],
     totalPL |-> [textContent |-> "+$0.00 (+0.00%)", className |-> "card-title profit"]]

InitRow ==
    [currentPrice |-> [textContent |-> "$0.00"],
     currentValue |-> [textContent |-> "$0.00"],
     profitLoss |-> [textContent |-> "+$0.00", className |-> "profit profit-loss"],
     profitLossPercent |-> [textContent |-> "(+0.00%)", className |-> "profit profit-loss-percent"]]

Init ==
    /\ btn = [disabled |-> FALSE, innerHTML |-> OriginalLabel]
    /\ outstanding = << >>
    /\ regions = InitRegions
    /\ rows = [id \in RowIds |-> InitRow]
    /\ alerts = << >>
    /\ hasContainer \in BOOLEAN
    /\ anchor \in {"child", "nested", "absent"}
    /\ (~hasContainer => anchor = "absent")
    /\ unhandledRejection = FALSE

\* ------------------------------------------------------------ showAlert
\* Variant: the existing alerts are left in place
RemoveExisting_KeepsAll(als) == als

\* document.querySelectorAll('.ajax-alert').forEach(alert => alert.remove())
RemoveExisting(als) == [i \in DOMAIN als |-> [als[i] EXCEPT !.inDoc = FALSE]]

\* The element built by showAlert, inserted and with its first timer set.
NewAlert(als, type, message) ==
    [type |-> type, message |-> message,
     show |-> TRUE, inDoc |-> TRUE,
     pos |-> IF anchor = "child" THEN "beforeAnchor" ELSE "lastChild",
     timer |-> "dismiss", remaining |-> DismissDelay, age |-> 0]

\* Variant: a missing anchor is a lookup failure as well
showAlert_AnchorRequired(als, type, message) ==
    IF ~hasContainer \/ anchor # "child"
    THEN [threw |-> TRUE, alerts |-> RemoveExisting(als)]
    ELSE [threw |-> FALSE,
          alerts |-> Append(RemoveExisting(als), NewAlert(als, type, message))]

\* showAlert(type, message) run on the alert elements als.
\* container.querySelector throws a TypeError when container is null;
\* container.insertBefore(alertDiv, ref) throws a NotFoundError when ref is
\* not a child of container, and appends alertDiv when ref is null.
showAlert(als, type, message) ==
    IF ~hasContainer \/ anchor = "nested"
    THEN [threw |-> TRUE, alerts |-> RemoveExisting(als)]
    ELSE [threw |-> FALSE,
          alerts |-> Append(RemoveExisting(als), NewAlert(als, type, message))]

\* -------------------------------------------------- the then callback
\* lines 15-23: the texts and the class written to the three total regions
FormatTotals(t) ==
    [totalInvested |-> [textContent |-> "$" \o toFixed2(t.total_invested)],
     totalValue |-> [textContent |-> "$" \o toFixed2(t.total_current_value)],
     totalPL |->
        [textContent |->
            plSign(t.total_profit_loss) \o "$" \o toFixed2(t.total_profit_loss)
            \o " (" \o plSign(t.total_profit_loss)
            \o toFixed2(t.total_profit_loss_percent) \o "%)",
         className |-> "card-title " \o plClass(t.total_profit_loss)]]

\* lines 28-39: the texts and the classes written to the four sub-elements
\* of one row
FormatRow(p) ==
    [currentPrice |-> [textContent |-> "$" \o toFixed2(p.current_price)],
     currentValue |-> [textContent |-> "$" \o toFixed2(p.current_value)],
     profitLoss |->
        [textContent |-> plSign(p.profit_loss) \o "$" \o toFixed2(p.profit_loss),
         className |-> plClass(p.profit_loss) \o " profit-loss"],
     profitLossPercent |->
        [textContent |->
            "(" \o plSign(p.profit_loss) \o toFixed2(p.profit_loss_percent) \o "%)",
         className |-> plClass(p.profit_loss) \o " profit-loss-percent"]]

\* FormatTotals and FormatRow tabulated over the values of Payloads.
FormattedTotals == [t \in {p.totals : p \in Payloads} |-> FormatTotals(t)]

FormattedRow ==
    [p \in UNION {{q.portfolios[k] : k \in DOMAIN q.portfolios} : q \in Payloads}
        |-> FormatRow(p)]

\* lines 15-23: every field of the three regions is overwritten
UpdateTotals(reg, t) == FormattedTotals[t]

\* lines 28-39: every field of the row is overwritten
UpdateRow(p) == FormattedRow[p]

\* data.portfolios.forEach(p => { const row = ...; if (row) {...} })
RECURSIVE ApplyPortfolios(_, _)
ApplyPortfolios(rws, ps) ==
    IF ps = << >> THEN rws
    ELSE LET p == Head(ps)
             next == IF p.id \in DOMAIN rws
                     THEN [rws EXCEPT ![p.id] = UpdateRow(p)]
                     ELSE rws
         IN ApplyPortfolios(next, Tail(ps))

\* The callback of .then(data => {...}) up to, not including, the restore
\* of the button: the alert elements, regions and rows it leaves behind
\* and whether it threw on the way.
thenCallback(data) ==
    LET warned == IF Truthy(data.error)
                  THEN showAlert(alerts, "warning", data.error)
                  ELSE [threw |-> FALSE, alerts |-> alerts]
    IN  IF warned.threw \/ data.shape = "noTotals"
        THEN [threw |-> TRUE, alerts |-> warned.alerts, regions |-> regions, rows |-> rows]
        ELSE IF data.shape = "noPortfolios"
        THEN [threw |-> TRUE, alerts |-> warned.alerts,
              regions |-> UpdateTotals(regions, data.totals), rows |-> rows]
        ELSE [threw |-> FALSE, alerts |-> warned.alerts,
              regions |-> UpdateTotals(regions, data.totals),
              rows |-> ApplyPortfolios(rows, data.portfolios)]

\* ------------------------------------------------------ the click handler
Remove(s, i) == SubSeq(s, 1, i - 1) \o SubSeq(s, i + 1, Len(s))

\* Variant: the request is issued without touching the button
ClickHandler_NoDisable ==
    /\ Len(outstanding) < MaxOutstanding
    /\ outstanding' = Append(outstanding, "fetching")
    /\ UNCHANGED <<btn, regions, rows, alerts, hasContainer, anchor, unhandledRejection>>

\* lines 2-8: disable, show the spinner, issue the request
ClickHandler ==
    /\ Len(outstanding) < MaxOutstanding
    /\ btn' = [disabled |-> TRUE, innerHTML |-> LoadingLabel]
    /\ outstanding' = Append(outstanding, "fetching")
    /\ UNCHANGED <<regions, rows, alerts, hasContainer, anchor, unhandledRejection>>

\* A click of the user: a disabled button delivers none.
refreshClick ==
    /\ ~btn.disabled
    /\ ClickHandler

\* The listener invoked by script while the button is disabled.
programmaticClick ==
    /\ btn.disabled
    /\ ClickHandler

\* Variant: the button is restored only when no other request is in flight
Settled_Tracked(i, als, reg, rws, threw) ==
    /\ Len(als) <= MaxAlerts
    /\ outstanding' = Remove(outstanding, i)
    /\ alerts' = als
    /\ regions' = reg
    /\ rows' = rws
    /\ btn' = IF threw \/ Len(outstanding) > 1
              THEN btn ELSE [disabled |-> FALSE, innerHTML |-> OriginalLabel]
    /\ unhandledRejection' = (unhandledRejection \/ threw)
    /\ UNCHANGED <<hasContainer, anchor>>

\* The end of chain i.  threw: the last callback that ran threw before it
\* reached btn.disabled = false.
Settled(i, als, reg, rws, threw) ==
    /\ Len(als) <= MaxAlerts
    /\ outstanding' = Remove(outstanding, i)
    /\ alerts' = als
    /\ regions' = reg
    /\ rows' = rws
    /\ btn' = IF threw THEN btn ELSE [disabled |-> FALSE, innerHTML |-> OriginalLabel]
    /\ unhandledRejection' = (unhandledRejection \/ threw)
    /\ UNCHANGED <<hasContainer, anchor>>

\* lines 46-51: the callback of .catch(error => {...})
catchCallback(i, als, reg, rws) ==
    LET shown == showAlert(als, "danger", DangerMessage)
    IN  Settled(i, shown.alerts, reg, rws, shown.threw)

\* fetch(url) fulfils: response.json() starts reading the body
FetchResolve(i) ==
    /\ i \in DOMAIN outstanding
    /\ outstanding[i] = "fetching"
    /\ outstanding' = [outstanding EXCEPT ![i] = "decoding"]
    /\ UNCHANGED <<btn, regions, rows, alerts, hasContainer, anchor, unhandledRejection>>

\* fetch(url) rejects (network failure): both then callbacks are skipped
FetchReject(i) ==
    /\ i \in DOMAIN outstanding
    /\ outstanding[i] = "fetching"
    /\ catchCallback(i, alerts, regions, rows)

\* response.json() rejects (the body is not JSON)
JsonReject(i) ==
    /\ i \in DOMAIN outstanding
    /\ outstanding[i] = "decoding"
    /\ catchCallback(i, alerts, regions, rows)

\* response.json() fulfils with data: the then callback runs, and the catch
\* callback right after it in the same microtask checkpoint if it threw
JsonResolve(i, data) ==
    /\ i \in DOMAIN outstanding
    /\ outstanding[i] = "decoding"
    /\ LET applied == thenCallback(data)
       IN  IF applied.threw
           THEN catchCallback(i, applied.alerts, applied.regions, applied.rows)
           ELSE Settled(i, applied.alerts, applied.regions, applied.rows, FALSE)

\* ------------------------------------------------------------- the timers
\* The timer of alert element id is due.
Pending(id, timer) ==
    /\ id \in DOMAIN alerts
    /\ alerts[id].timer = timer
    /\ alerts[id].remaining = 0

\* Variant: the callback looks the alert up in the document instead of
\* using the element of its own call
TimerDismiss_Current(id) ==
    /\ Pending(id, "dismiss")
    /\ alerts' = [i \in DOMAIN alerts |->
                    IF i = id
                    THEN [alerts[i] EXCEPT !.timer = "remove", !.remaining = FadeDelay,
                                           !.show = IF alerts[i].inDoc THEN FALSE ELSE @]
                    ELSE IF alerts[i].inDoc THEN [alerts[i] EXCEPT !.show = FALSE]
                    ELSE alerts[i]]
    /\ UNCHANGED <<btn, outstanding, regions, rows, hasContainer, anchor, unhandledRejection>>

\* lines 70-73, outer callback: alertDiv.classList.remove('show'); setTimeout(..., 150)
TimerDismiss(id) ==
    /\ Pending(id, "dismiss")
    /\ alerts' = [alerts EXCEPT ![id].show = FALSE,
                                ![id].timer = "remove",
                                ![id].remaining = FadeDelay]
    /\ UNCHANGED <<btn, outstanding, regions, rows, hasContainer, anchor, unhandledRejection>>

\* Variant: the inner callback never detaches the element
TimerRemove_Stale(id) ==
    /\ Pending(id, "remove")
    /\ alerts' = [alerts EXCEPT ![id].timer = "none"]
    /\ UNCHANGED <<btn, outstanding, regions, rows, hasContainer, anchor, unhandledRejection>>

\* line 72, inner callback: alertDiv.remove(); no timer is left on the element
TimerRemove(id) ==
    /\ Pending(id, "remove")
    /\ alerts' = [alerts EXCEPT ![id].inDoc = FALSE, ![id].timer = "none"]
    /\ UNCHANGED <<btn, outstanding, regions, rows, hasContainer, anchor, unhandledRejection>>

Min(a, b) == IF a <= b THEN a ELSE b

\* The alert elements that still have a timer set.
Timed == {i \in DOMAIN alerts : alerts[i].timer # "none"}

NextDue == CHOOSE r \in {alerts[i].remaining : i \in Timed} :
                \A i \in Timed : r <= alerts[i].remaining

\* Time passes by d, or up to the next timer that becomes due.
Advance(d) ==
    /\ Timed # {}
    /\ NextDue > 0
    /\ alerts' = [i \in DOMAIN alerts |->
                    IF i \in Timed
                    THEN [alerts[i] EXCEPT !.remaining = @ - Min(d, NextDue),
                                           !.age = @ + Min(d, NextDue)]
                    ELSE alerts[i]]
    /\ UNCHANGED <<btn, outstanding, regions, rows, hasContainer, anchor, unhandledRejection>>

\* -------------------------------------------------------- specifications
Requests == 1..MaxOutstanding

Next ==
    \/ refreshClick
    \/ programmaticClick
    \/ \E i \in Requests : FetchResolve(i)
    \/ \E i \in Requests : FetchReject(i)
    \/ \E i \in Requests : JsonReject(i)
    \/ \E i \in Requests, data \in ResponseData : JsonResolve(i, data)
    \/ \E id \in AlertIds : TimerDismiss(id)
    \/ \E id \in AlertIds : TimerRemove(id)
    \/ \E d \in TimeSteps : Advance(d)

Spec == Init /\ [][Next]_vars

\* Activations come from user clicks only.
NextUser ==
    \/ refreshClick
    \/ \E i \in Requests : FetchResolve(i)
    \/ \E i \in Requests : FetchReject(i)
    \/ \E i \in Requests : JsonReject(i)
    \/ \E i \in Requests, data \in ResponseData : JsonResolve(i, data)
    \/ \E id \in AlertIds : TimerDismiss(id)
    \/ \E id \in AlertIds : TimerRemove(id)
    \/ \E d \in TimeSteps : Advance(d)

SpecUser == Init /\ [][NextUser]_vars

\* The event loop runs every due timer callback, and time passes.
FairSpec ==
    /\ Spec
    /\ WF_vars(\E d \in TimeSteps : Advance(d))
    /\ \A id \in AlertIds : WF_vars(TimerDismiss(id)) /\ WF_vars(TimerRemove(id))

TypeOK ==
    /\ btn \in [disabled : BOOLEAN, innerHTML : {LoadingLabel, OriginalLabel}]
    /\ Len(outstanding) <= MaxOutstanding
    /\ Len(alerts) <= MaxAlerts

\* ------------------------------------------------------------ properties
InDocument == {i \in DOMAIN alerts : alerts[i].inDoc}

Restored(b) == ~b.disabled /\ b.innerHTML = OriginalLabel

\* What the page shows for each of the two totals of Payloads.
ExpectedRegions(t) ==
    IF t = ProfitTotals
    THEN [totalInvested |-> [textContent |-> "$100.00"],
          totalValue |-> [textContent |-> "$125.50"],
          totalPL |-> [textContent |-> "+$25.50 (+25.50%)", className |-> "card-title profit"]]
    ELSE [totalInvested |-> [textContent |-> "$100.00"],
          totalValue |-> [textContent |-> "$87.66"],
          totalPL |-> [textContent |-> "$-12.34 (-12.34%)", className |-> "card-title loss"]]

\* What row 1 shows after the portfolios of each payload were applied.
ExpectedRow(t) ==
    IF t = ProfitTotals
    THEN [currentPrice |-> [textContent |-> "$50.05"],
          currentValue |-> [textContent |-> "$100.10"],
          profitLoss |-> [textContent |-> "+$25.10", className |-> "profit profit-loss"],
          profitLossPercent |-> [textContent |-> "(+33.47%)",
                                 className |-> "profit profit-loss-percent"]]
    ELSE [currentPrice |-> [textContent |-> "$43.83"],
          currentValue |-> [textContent |-> "$87.66"],
          profitLoss |-> [textContent |-> "$-12.34", className |-> "loss profit-loss"],
          profitLossPercent |-> [textContent |-> "(-12.34%)",
                                 className |-> "loss profit-loss-percent"]]

\* C1: every step that settles a request (its response or its failure has
\* been handled) leaves the button enabled with its original label.
C1_AlwaysRestored ==
    [][Len(outstanding') < Len(outstanding) => Restored(btn')]_vars

\* C2: with activations from user clicks only, at most one request is
\* outstanding, and while it is the button is disabled and shows the
\* loading label.
C2_SingleOutstanding ==
    /\ Len(outstanding) <= 1
    /\ outstanding # << >> => (btn.disabled /\ btn.innerHTML = LoadingLabel)

C2_Witness ==
    /\ Len(outstanding) = 1
    /\ outstanding[1] = "decoding"
    /\ btn.disabled
    /\ regions # InitRegions

\* C3: handling a decoded, well-formed response whose error field has a
\* value X creates a warning alert with message X and still applies the
\* totals and the rows of that response.
C3_ErrorIsNonFatal ==
    [][\A i \in Requests, data \in ResponseData :
        (data.error # Undefined /\ data.shape = "ok" /\ JsonResolve(i, data)) =>
            /\ Len(alerts') = Len(alerts) + 1
            /\ alerts'[Len(alerts')].type = "warning"
            /\ alerts'[Len(alerts')].message = data.error
            /\ alerts'[Len(alerts')].inDoc
            /\ regions' = ExpectedRegions(data.totals)
            /\ rows'[1] = ExpectedRow(data.totals)]_vars

\* C4: handling a network failure leaves the button enabled with its
\* original label and exactly one alert in the document, the danger alert
\* created by that step; every alert that existed before is out of the
\* document.
C4_NetworkFailure ==
    [][\A i \in Requests : FetchReject(i) =>
            /\ Restored(btn')
            /\ Len(alerts') = Len(alerts) + 1
            /\ {j \in DOMAIN alerts' : alerts'[j].inDoc} = {Len(alerts')}
            /\ alerts'[Len(alerts')].type = "danger"]_vars

\* C5: at most one alert element is in the document, and it is the one
\* created by the most recent showAlert call.
C5_SingleAlert ==
    /\ Cardinality(InDocument) <= 1
    /\ \A i \in InDocument : i = Len(alerts)

C5_Witness ==
    /\ Len(alerts) >= 2
    /\ InDocument = {Len(alerts)}
    /\ \E j \in DOMAIN alerts : j < Len(alerts) /\ alerts[j].timer = "dismiss"

\* C6: handling a well-formed response without an error field sets the
\* total regions from the totals of the response and creates or removes no
\* alert.
C6_CleanSuccess ==
    [][\A i \in Requests, data \in ResponseData :
        (data.error = Undefined /\ data.shape = "ok" /\ JsonResolve(i, data)) =>
            /\ regions' = ExpectedRegions(data.totals)
            /\ alerts' = alerts]_vars

C6_Witness ==
    /\ hasContainer
    /\ alerts = << >>
    /\ regions = ExpectedRegions(LossTotals)
    /\ Restored(btn)

\* The showAlert call of the catch callback fails when it has no place to
\* insert the alert.
NoPlace == ~hasContainer \/ anchor = "nested"

\* C7 as stated: with the container or the anchor absent, the showAlert
\* call of the catch callback fails and inserts no alert.
C7_ContainerOrAnchor ==
    [][\A i \in Requests :
        ((~hasContainer \/ anchor = "absent") /\ (FetchReject(i) \/ JsonReject(i))) =>
            (unhandledRejection' /\ alerts' = alerts)]_vars

\* C7 amended: with the container absent, or its first .d-flex element not
\* a child of it, the showAlert call of the catch callback fails and no
\* alert is ever inserted; otherwise the call does not fail, and without
\* any .d-flex element the new alert becomes the last child of the
\* container.
C7_ContainerOnly ==
    [][\A i \in Requests : (FetchReject(i) \/ JsonReject(i)) =>
            IF NoPlace
            THEN unhandledRejection' /\ alerts' = << >> /\ alerts = << >>
            ELSE /\ unhandledRejection' = unhandledRejection
                 /\ Len(alerts') = Len(alerts) + 1
                 /\ alerts'[Len(alerts')].inDoc
                 /\ alerts'[Len(alerts')].pos =
                        IF anchor = "absent" THEN "lastChild" ELSE "beforeAnchor"]_vars

C7_Witness ==
    /\ ~hasContainer
    /\ unhandledRejection
    /\ alerts = << >>
    /\ outstanding = << >>

\* C8: an alert in the document eventually leaves it; its show class goes
\* no earlier than 5000 after the insertion and the element no earlier
\* than 150 after that, in this order; an alert out of the document stays
\* out.
C8_Timing ==
    \A id \in DOMAIN alerts :
        /\ alerts[id].timer = "dismiss" => alerts[id].show /\ alerts[id].age <= 5000
        /\ alerts[id].timer = "remove" => ~alerts[id].show /\ alerts[id].age >= 5000
        /\ alerts[id].timer = "none" =>
                ~alerts[id].show /\ ~alerts[id].inDoc /\ alerts[id].age >= 5000 + 150

C8_Order ==
    \A id \in DOMAIN alerts :
        /\ ~alerts[id].inDoc => ~alerts'[id].inDoc
        /\ alerts[id].timer = "dismiss" => alerts'[id].timer \in {"dismiss", "remove"}
        /\ alerts[id].timer = "remove" => alerts'[id].timer \in {"remove", "none"}
        /\ alerts[id].timer = "none" => alerts'[id].timer = "none"

C8_Lifecycle ==
    /\ []C8_Timing
    /\ [][C8_Order]_vars
    /\ \A id \in AlertIds :
        (id \in InDocument) ~> (id \in DOMAIN alerts /\ ~alerts[id].inDoc)

C8_Witness ==
    /\ Len(alerts) >= 2
    /\ \A id \in DOMAIN alerts : alerts[id].timer = "none"
    /\ alerts[Len(alerts)].age = 5150

\* C9: until its own dismiss timer fires an alert keeps its show class, and
\* the alert of the latest call stays in the document until its own remove
\* timer fires, whatever the timers of earlier calls do.
C9_OwnTimersOnly ==
    \A id \in DOMAIN alerts :
        /\ alerts[id].age < 5000 => alerts[id].show
        /\ alerts[id].timer = "dismiss" => alerts[id].show
        /\ (id = Len(alerts) /\ alerts[id].timer # "none") => alerts[id].inDoc

C9_Witness ==
    \E j \in DOMAIN alerts :
        /\ j + 1 \in DOMAIN alerts
        /\ alerts[j].timer = "remove"
        /\ alerts[j].age - alerts[j + 1].age < 5000
        /\ alerts[j + 1].age > 0
        /\ alerts[j + 1].timer = "dismiss"
        /\ alerts[j + 1].show
        /\ alerts[j + 1].inDoc

\* C10: the listener invoked while a request is outstanding issues one
\* more request; a response the then callback applies sets the totals of
\* that response whatever its place in the issue order, and enables the
\* button although other requests are still outstanding.
C10_Applied(data) == data.shape = "ok" /\ (Truthy(data.error) => ~NoPlace)

C10_Untracked ==
    /\ []((outstanding # << >> /\ Len(outstanding) < MaxOutstanding) => ENABLED ClickHandler)
    /\ [][/\ Len(outstanding') > Len(outstanding) =>
                outstanding' = Append(outstanding, "fetching")
          /\ \A i \in Requests, data \in ResponseData :
                (C10_Applied(data) /\ JsonResolve(i, data)) =>
                    /\ regions' = ExpectedRegions(data.totals)
                    /\ Restored(btn')]_vars

C10_Witness ==
    /\ Len(outstanding) >= 1
    /\ Restored(btn)
    /\ regions # InitRegions

====
